---- MODULE Spec2Model ----
(***************************************************************************)
(* DailyDutyNotifier: the daily duty assignment Lambda                     *)
(* (src/DailyDutyNotifier/index.js) and the three reselection Lambdas      *)
(* (src/unnamed/part_000 lines 1-419: exclusion-rank, part_000 lines       *)
(* 421-815: fixed-rotation, src/unnamed/part_001: identifier-rotation),    *)
(* over the two DynamoDB tables (members, duty state) and the Slack        *)
(* announcement messages.                                                  *)
(***************************************************************************)
EXTENDS Integers, Sequences, FiniteSets, TLC

\* ------------------------------------------------------------------ bounds
MaxDays == 1
MaxTriggers == 3
MaxFailures == 1
MaxDailyRuns == 2
NSlots == 2
ConcTriggers == 2
ConcFailures == 1
MaxOrder == 2
MaxSkew == 600

\* --------------------------------------------------------------- constants
\* 60 * 5 seconds, the freshness window of verifySlackRequest
FreshnessWindow == 300
\* the two day-of-week numbers isWeekdayInZone treats as the weekend
SundayNumber == 0
SaturdayNumber == 6

\* ------------------------------------------------------------------ values
Ids == {"A", "B", "C"}
NoId == "none"
Policies == {"fixed", "exclusion", "identifier"}

\* String.prototype.localeCompare on the member ids of the model: "" < A < B < C
IdRank(id) ==
  CASE id = "A" -> 1
    [] id = "B" -> 2
    [] id = "C" -> 3
    [] OTHER -> 0

LocaleCompare(a, b) == IdRank(a) - IdRank(b)

\* An item of the members table as getAllMembers returns it. hasOrder is
\* whether the item carries a displayOrder attribute.
Item(id, c, ho, o) ==
  [memberId |-> id, dutyCount |-> c, hasOrder |-> ho, displayOrder |-> o]

\* a.displayOrder ?? Infinity, compared: orderA !== orderB, orderA - orderB
OrderDiff(a, b) ==
  CASE a.hasOrder /\ b.hasOrder -> a.displayOrder - b.displayOrder
    [] a.hasOrder /\ ~b.hasOrder -> 0 - 1
    [] ~a.hasOrder /\ b.hasOrder -> 1
    [] OTHER -> 0

\* A comparator that leaves the dutyCount key out: C11 must tell it from
\* CompareRank.
CompareRankNoCount(a, b) ==
  IF OrderDiff(a, b) # 0 THEN OrderDiff(a, b)
  ELSE LocaleCompare(a.memberId, b.memberId)

\* A comparator that leaves ties on dutyCount and displayOrder as they come:
\* C14 must tell it from CompareRank.
CompareRankNoId(a, b) ==
  IF a.dutyCount # b.dutyCount THEN a.dutyCount - b.dutyCount
  ELSE OrderDiff(a, b)

\* A comparator that leaves the displayOrder key out: C10 must tell it from
\* CompareRank.
CompareRankNoOrder(a, b) ==
  IF a.dutyCount # b.dutyCount THEN a.dutyCount - b.dutyCount
  ELSE LocaleCompare(a.memberId, b.memberId)

\* The comparator of selectFirstDutyMember and createRotationList.
CompareRank(a, b) ==
  IF a.dutyCount # b.dutyCount THEN a.dutyCount - b.dutyCount
  ELSE IF OrderDiff(a, b) # 0 THEN OrderDiff(a, b)
  ELSE LocaleCompare(a.memberId, b.memberId)

\* A comparator that orders by memberId alone: C28 must tell it from
\* CompareCountId.
CompareCountIdNoCount(a, b) == LocaleCompare(a.memberId, b.memberId)

\* The comparator of selectNewDutyMember (exclusion-rank): no displayOrder key.
CompareCountId(a, b) ==
  IF a.dutyCount # b.dutyCount THEN a.dutyCount - b.dutyCount
  ELSE LocaleCompare(a.memberId, b.memberId)

\* The comparator of selectNextMemberByIdRotation.
CompareId(a, b) == LocaleCompare(a.memberId, b.memberId)

\* The comparator handed to sort, by the function that sorts.
Compare(by, a, b) ==
  CASE by = "rank" -> CompareRank(a, b)
    [] by = "countId" -> CompareCountId(a, b)
    [] OTHER -> CompareId(a, b)

\* Array.prototype.sort (stable): x goes after every element that does not
\* compare greater than it.
InsertSorted(by, s, x) ==
  LET after == {i \in 1..Len(s) : Compare(by, s[i], x) <= 0}
      k == IF after = {} THEN 0 ELSE CHOOSE i \in after : \A j \in after : j <= i
  IN SubSeq(s, 1, k) \o <<x>> \o SubSeq(s, k + 1, Len(s))

RECURSIVE SortFrom(_, _, _, _)
SortFrom(by, s, i, acc) ==
  IF i > Len(s) THEN acc
  ELSE SortFrom(by, s, i + 1, InsertSorted(by, acc, s[i]))

SortBy(by, s) == SortFrom(by, s, 1, <<>>)

\* Array.prototype.indexOf / findIndex, 1-based; 0 when absent (the code's -1)
IndexOf(s, x) ==
  IF \E i \in 1..Len(s) : s[i] = x
  THEN CHOOSE i \in 1..Len(s) : s[i] = x /\ \A j \in 1..(i - 1) : s[j] # x
  ELSE 0

MemberIds(s) == [i \in 1..Len(s) |-> s[i].memberId]

\* ------------------------------------------------------------- duty state
\* The item of the state table. exists: the item is there. hasList: it holds
\* the attributes PutCommand writes together (assignmentDate, rotationList,
\* currentListIndex, currentAssignedMemberId). hasLast: it holds
\* lastAssignedMemberId. currentListIndex is 0-based as in the code.
NoState ==
  [exists |-> FALSE, hasList |-> FALSE, assignmentDate |-> 0,
   rotationList |-> <<>>, currentListIndex |-> 0,
   currentAssignedMemberId |-> NoId,
   hasLast |-> FALSE, lastAssignedMemberId |-> NoId]

\* getDutyState: Item || { lastAssignedMemberId: null, lastAssignmentDate: null }
GetDutyState(ds) == IF ds.exists THEN ds ELSE NoState

\* ----------------------------------------------------------- selection
\* selectFirstDutyMember(members, lastAssignmentState), today the date string
\* of formatInTimeZone(new Date(), timeZone, 'yyyy-MM-dd').
\* An exclusion of the recorded assignee whatever the date of the state:
\* C12 must tell it from YesterdayAssignedId.
RecordedAssigneeAnyDate(st, todayStr) ==
  IF st.hasList /\ st.assignmentDate # 0 THEN st.currentAssignedMemberId ELSE NoId

\* A first selection that never passes over the recorded assignee: C39 must
\* tell it from YesterdayAssignedId.
YesterdayNotConsidered(st, todayStr) == NoId

YesterdayAssignedId(st, todayStr) ==
  IF st.hasList /\ st.assignmentDate # 0 /\ st.assignmentDate # todayStr
  THEN st.currentAssignedMemberId
  ELSE NoId

\* A candidate set without the fallback to the whole directory: C13 must
\* tell it from FirstCandidates.
CandidatesNoFallback(ms, st, todayStr) ==
  LET y == YesterdayAssignedId(st, todayStr)
      Keep(m) == m.memberId # y
  IN SelectSeq(ms, Keep)

FirstCandidates(ms, st, todayStr) ==
  LET y == YesterdayAssignedId(st, todayStr)
      Keep(m) == m.memberId # y
      c == SelectSeq(ms, Keep)
  IN IF Len(c) = 0 THEN ms ELSE c

\* <<>> stands for undefined (candidates[0] of an empty array)
SelectFirstDutyMember(ms, st, todayStr) ==
  LET sorted == SortBy("rank", FirstCandidates(ms, st, todayStr))
  IN IF Len(sorted) = 0 THEN <<>> ELSE <<sorted[1]>>

\* A rotation list in the order of the scan: C15 must tell it from
\* CreateRotationList.
RotationListUnsorted(ms) == MemberIds(ms)

\* createRotationList(members)
CreateRotationList(ms) == MemberIds(SortBy("rank", ms))

\* ------------------------------------------------------------------ state
VARIABLES
  probe,        \* the input and the result of a function checked on its own
  policy,       \* which reselection Lambda is deployed
  lim,          \* the limits of the run: invocations in progress, triggers, failures
  members,      \* the members table: id -> item
  dutyState,    \* the item of the state table
  msgs,         \* the announcement messages of the channel, by post order
  today,        \* the current date in the configured time zone, a day number
  df,           \* the invocation of the daily Lambda
  rs,           \* the invocations of the reselection Lambda, by slot
  g             \* history kept for the properties; no action reads it to decide

vars == <<probe, policy, lim, members, dutyState, msgs, today, df, rs, g>>

Slots == 1..NSlots

\* The order in which ScanCommand returns the items (not sorted by id).
ScanOrder == <<"C", "A", "B">>

\* getAllMembers: the items present, dutyCount as Number(item.dutyCount) || 0
GetAllMembers(tbl) ==
  LET Present(id) == tbl[id].present
      ToItem(id) == Item(id, tbl[id].dutyCount, tbl[id].hasOrder, tbl[id].displayOrder)
      ids == SelectSeq(ScanOrder, Present)
  IN [i \in 1..Len(ids) |-> ToItem(ids[i])]

\* An update that sets the counter to the delta instead of adding it: C1
\* must tell it from AddDutyCount.
SetDutyCount(tbl, id, delta) ==
  [tbl EXCEPT ![id] = [present |-> TRUE, dutyCount |-> delta,
                       hasOrder |-> tbl[id].hasOrder,
                       displayOrder |-> tbl[id].displayOrder]]

\* UpdateCommand "ADD dutyCount :delta" on Key {memberId: id}: an item that is
\* not there is created with dutyCount = delta and no other attribute.
AddDutyCount(tbl, id, delta) ==
  IF tbl[id].present
  THEN [tbl EXCEPT ![id].dutyCount = @ + delta]
  ELSE [tbl EXCEPT ![id] = [present |-> TRUE, dutyCount |-> delta,
                            hasOrder |-> FALSE, displayOrder |-> 0]]

\* ------------------------------------------------------------ calendar
\* formatInTimeZone(date, tz, 'i'): date-fns token i is the ISO day of week,
\* 1 (Monday) .. 7 (Sunday). Day number 1 of the model is a Monday.
FormatIsoDay(d) == ((d - 1) % 7) + 1

\* holiday_jp.isHoliday(date): the days of the model that are holidays
HolidayDays == {3}
IsHoliday(d) == d \in HolidayDays

\* isWeekdayInZone(date, tz)
IsWeekdayInZone(d) ==
  LET dayOfWeek == FormatIsoDay(d)
  IN IF dayOfWeek = SundayNumber \/ dayOfWeek = SaturdayNumber THEN FALSE
     ELSE IF IsHoliday(d) THEN FALSE
     ELSE TRUE

\* ------------------------------------------------------------ invocations
IdleDaily ==
  [pc |-> "idle", todayStr |-> 0, st |-> NoState, ms |-> <<>>, sel |-> NoId,
   list |-> <<>>, status |-> 0, calls |-> {}]

\* A finished daily invocation keeps its response and what it called.
DailyDone(d, code) ==
  [IdleDaily EXCEPT !.pc = "done", !.status = code, !.todayStr = d.todayStr,
                    !.calls = d.calls]

IdleReselect ==
  [pc |-> "idle", auth |-> "none", kind |-> "none", btn |-> NoId, msg |-> 0,
   st |-> NoState, ms |-> <<>>, newIdx |-> 0, newId |-> NoId, status |-> 0,
   calls |-> {}]

Running(r) == r.pc \notin {"idle", "done"}
InFlight ==
  Cardinality({s \in Slots : Running(rs[s])}) + (IF Running(df) THEN 1 ELSE 0)
Quiet == InFlight = 0

\* A downstream call fails: allowed while the budget lasts.
CanFail == g.failures < lim.failures
Failed(h) == [h EXCEPT !.failures = @ + 1, !.failedToday = TRUE]

\* ------------------------------------------------------------ daily flow
\* handler, lines 260-274: the business-day check.
DailyStart ==
  /\ ~Running(df)
  /\ InFlight < lim.inflight
  /\ g.dailyRuns < MaxDailyRuns
  /\ IF ~IsWeekdayInZone(today)
     THEN /\ df' = DailyDone([IdleDaily EXCEPT !.todayStr = today], 200)
          /\ g' = [g EXCEPT !.dailyRuns = @ + 1]
     ELSE /\ df' = [IdleDaily EXCEPT !.pc = "read", !.todayStr = today]
          /\ g' = [g EXCEPT !.dailyRuns = @ + 1,
                            !.base = IF g.baseDay = today THEN @
                                     ELSE [i \in Ids |-> IF members[i].present
                                                         THEN members[i].dutyCount ELSE 0],
                            !.baseDay = today,
                            !.assigned = IF g.baseDay = today THEN @ ELSE 0,
                            !.failedToday = IF g.baseDay = today THEN @ ELSE FALSE,
                            !.otherDay = IF g.baseDay = today THEN @ ELSE FALSE]
  /\ UNCHANGED <<probe, policy, lim, members, dutyState, msgs, today, rs>>

\* handler, lines 276-300: the two reads, the empty-directory exit, the
\* selection and the rotation list.
DailyRead ==
  /\ df.pc = "read"
  /\ \E ok \in BOOLEAN :
       /\ ok \/ CanFail
       /\ IF ~ok
          THEN /\ df' = [df EXCEPT !.pc = "catch", !.calls = @ \cup {"getState", "scan"}]
               /\ g' = Failed(g)
          ELSE LET st == GetDutyState(dutyState)
                   ms == GetAllMembers(members)
                   sel == SelectFirstDutyMember(ms, st, today)
               IN /\ g' = g
                  /\ df' = IF Len(ms) = 0
                           THEN [df EXCEPT !.pc = "diag", !.st = st, !.ms = ms,
                                           !.calls = @ \cup {"getState", "scan"}]
                           ELSE IF sel = <<>>
                           THEN [df EXCEPT !.pc = "nosel", !.st = st, !.ms = ms,
                                           !.calls = @ \cup {"getState", "scan"}]
                           ELSE [df EXCEPT !.pc = "inc", !.st = st, !.ms = ms,
                                           !.sel = sel[1].memberId,
                                           !.list = CreateRotationList(ms),
                                           !.calls = @ \cup {"getState", "scan", "select"}]
  /\ UNCHANGED <<probe, policy, lim, members, dutyState, msgs, today, rs>>

\* A diagnostic exit that answers 200: C33 must tell it from DailyDiag.
DailyDiagSuccess ==
  /\ df.pc \in {"diag", "nosel"}
  /\ \E ok \in BOOLEAN :
       /\ ok \/ CanFail
       /\ IF ok
          THEN /\ df' = DailyDone([df EXCEPT !.calls = @ \cup {"postDiag"}], 200)
               /\ g' = g
          ELSE /\ df' = [df EXCEPT !.pc = "catch", !.calls = @ \cup {"postDiag"}]
               /\ g' = Failed(g)
  /\ UNCHANGED <<probe, policy, lim, members, dutyState, msgs, today, rs>>

\* handler, lines 283-288 and 292-296: the diagnostic announcements.
DailyDiag ==
  /\ df.pc \in {"diag", "nosel"}
  /\ \E ok \in BOOLEAN :
       /\ ok \/ CanFail
       /\ IF ok
          THEN /\ df' = DailyDone([df EXCEPT !.calls = @ \cup {"postDiag"}],
                                     IF df.pc = "diag" THEN 400 ELSE 500)
               /\ g' = g
          ELSE /\ df' = [df EXCEPT !.pc = "catch", !.calls = @ \cup {"postDiag"}]
               /\ g' = Failed(g)
  /\ UNCHANGED <<probe, policy, lim, members, dutyState, msgs, today, rs>>

\* updateInitialDutyData, lines 152-185: the increment of the selected member.
DailyInc ==
  /\ df.pc = "inc"
  /\ \E ok \in BOOLEAN :
       /\ ok \/ CanFail
       /\ IF ok
          THEN /\ members' = AddDutyCount(members, df.sel, 1)
               /\ df' = [df EXCEPT !.pc = IF IndexOf(df.list, df.sel) = 0
                                          THEN "reread" ELSE "put",
                                   !.calls = @ \cup {"addCount"}]
               /\ g' = [g EXCEPT !.assigned = @ + 1]
          ELSE /\ members' = members
               /\ df' = [df EXCEPT !.pc = "catch", !.calls = @ \cup {"addCount"}]
               /\ g' = Failed(g)
  /\ UNCHANGED <<probe, policy, lim, dutyState, msgs, today, rs>>

\* A put that keeps the lastAssignedMemberId of the item it replaces, as a
\* partial update would: C22 must tell it from InitialStateItem.
InitialStateItemMerged(selId, rotationList, todayStr) ==
  [exists |-> TRUE, hasList |-> TRUE, assignmentDate |-> todayStr,
   rotationList |-> rotationList,
   currentListIndex |-> IndexOf(rotationList, selId) - 1,
   currentAssignedMemberId |-> selId,
   hasLast |-> dutyState.hasLast,
   lastAssignedMemberId |-> dutyState.lastAssignedMemberId]

\* The item updateInitialDutyData puts, lines 188-197.
InitialStateItem(selId, rotationList, todayStr) ==
  [exists |-> TRUE, hasList |-> TRUE, assignmentDate |-> todayStr,
   rotationList |-> rotationList,
   currentListIndex |-> IndexOf(rotationList, selId) - 1,
   currentAssignedMemberId |-> selId,
   hasLast |-> FALSE, lastAssignedMemberId |-> NoId]

\* updateInitialDutyData, lines 187-199: the state item is overwritten.
DailyPut ==
  /\ df.pc = "put"
  /\ \E ok \in BOOLEAN :
       /\ ok \/ CanFail
       /\ IF ok
          THEN /\ dutyState' = InitialStateItem(df.sel, df.list, df.todayStr)
               /\ df' = [df EXCEPT !.pc = "reread", !.calls = @ \cup {"putState"}]
               /\ g' = [g EXCEPT !.reselected = 0,
                                 !.startIdx = dutyState'.currentListIndex,
                                 !.startId = df.sel]
          ELSE /\ dutyState' = dutyState
               /\ df' = [df EXCEPT !.pc = "catch", !.calls = @ \cup {"putState"}]
               /\ g' = Failed(g)
  /\ UNCHANGED <<probe, policy, lim, members, msgs, today, rs>>

\* handler, line 306: the directory is read again for the announcement.
DailyReread ==
  /\ df.pc = "reread"
  /\ \E ok \in BOOLEAN :
       /\ ok \/ CanFail
       /\ IF ok
          THEN /\ df' = [df EXCEPT !.pc = "post", !.ms = GetAllMembers(members)]
               /\ g' = g
          ELSE /\ df' = [df EXCEPT !.pc = "catch"]
               /\ g' = Failed(g)
  /\ UNCHANGED <<probe, policy, lim, members, dutyState, msgs, today, rs>>

\* sendSlackNotification, lines 209-257: a new message whose button carries
\* the selected member's id.
DailyPost ==
  /\ df.pc = "post"
  /\ \E ok \in BOOLEAN :
       /\ ok \/ CanFail
       /\ IF ok
          THEN /\ msgs' = Append(msgs, [date |-> df.todayStr, value |-> df.sel,
                                        shown |-> {df.sel}])
               /\ df' = DailyDone([df EXCEPT !.calls = @ \cup {"postMessage"}], 200)
               /\ g' = g
          ELSE /\ msgs' = msgs
               /\ df' = [df EXCEPT !.pc = "catch", !.calls = @ \cup {"postMessage"}]
               /\ g' = Failed(g)
  /\ UNCHANGED <<probe, policy, lim, members, dutyState, today, rs>>

\* A catch block whose failure announcement is not guarded: when it fails the
\* invocation ends with an unhandled error instead of the 500 response. C34
\* must tell it from DailyCatch.
DailyCatchUnguarded ==
  /\ df.pc = "catch"
  /\ \E ok \in BOOLEAN :
       /\ g' = [g EXCEPT !.errorPosted = ok]
       /\ df' = DailyDone([df EXCEPT !.calls = @ \cup {"postError"}],
                          IF ok THEN 500 ELSE 502)
  /\ UNCHANGED <<probe, policy, lim, members, dutyState, msgs, today, rs>>

\* handler, lines 318-339: the failure announcement and the 500 response. The
\* announcement is delivered or not (its own failure is logged and swallowed,
\* so it is not one of the failures that reach the handler).
DailyCatch ==
  /\ df.pc = "catch"
  /\ \E ok \in BOOLEAN : g' = [g EXCEPT !.errorPosted = ok]
  /\ df' = DailyDone([df EXCEPT !.calls = @ \cup {"postError"}], 500)
  /\ UNCHANGED <<probe, policy, lim, members, dutyState, msgs, today, rs>>

\* -------------------------------------------------------- authenticator
\* A header or body string that may be missing (undefined or ""), and the
\* request-timestamp header: numeric text, or text parseInt turns into NaN.
SigningSecret == [present |-> TRUE, key |-> "slack"]
NoSecret == [present |-> FALSE, key |-> ""]
NoBody == [present |-> FALSE, payload |-> <<>>]
NoTimestamp == [present |-> FALSE, numeric |-> FALSE, val |-> 0]
Timestamp(t) == [present |-> TRUE, numeric |-> TRUE, val |-> t]
NaNTimestamp == [present |-> TRUE, numeric |-> FALSE, val |-> 0]

\* 'v0=' followed by the 64 hex digits of a SHA-256 digest
SignatureLength == 67

\* `v0:${timestamp}:${body}` under HMAC-SHA256 with the secret: the digest
\* stands for the key and the text it was computed from.
ComputeSignature(secret, timestamp, body) ==
  [present |-> TRUE, len |-> SignatureLength,
   mac |-> [key |-> secret.key, ts |-> timestamp, body |-> body]]

NoSignature ==
  [present |-> FALSE, len |-> 0,
   mac |-> [key |-> "", ts |-> NoTimestamp, body |-> NoBody]]

\* An authenticator without the freshness window: C8 must tell it from
\* TimestampTooOld.
TimestampNeverTooOld(timestamp, now) == FALSE

\* A freshness check that also turns down timestamps more than the window
\* ahead of the clock: C40 must tell it from TimestampTooOld.
TimestampOutsideWindow(timestamp, now) ==
  LET fiveMinutesAgo == now - FreshnessWindow
  IN timestamp.numeric /\ (timestamp.val < fiveMinutesAgo
                           \/ timestamp.val > now + FreshnessWindow)

\* parseInt(timestamp, 10) < fiveMinutesAgo; a comparison with NaN is false
TimestampTooOld(timestamp, now) ==
  LET fiveMinutesAgo == now - FreshnessWindow
  IN timestamp.numeric /\ timestamp.val < fiveMinutesAgo

\* An authenticator that lets every request through: C7 must tell it from
\* VerifySlackRequest.
AcceptEveryRequest(event, secret, now) == TRUE

\* verifySlackRequest(event) with the secret of the environment at time now
VerifySlackRequest(event, secret, now) ==
  IF ~event.sig.present \/ ~event.ts.present \/ ~event.body.present \/ ~secret.present
  THEN FALSE
  ELSE IF TimestampTooOld(event.ts, now) THEN FALSE
  ELSE LET computed == ComputeSignature(secret, event.ts, event.body)
       IN IF event.sig.len # computed.len THEN FALSE
          ELSE event.sig.mac = computed.mac

\* ------------------------------------------------------ reselection: pick
\* A pick that goes from the empty first candidate set straight to the whole
\* directory: C26 must tell it from SelectNewDutyMember.
SelectNewDutyMemberOneFallback(ms, currentMemberId, lastAssignedId) ==
  IF Len(ms) = 0 THEN <<>>
  ELSE LET NotExcluded(m) == m.memberId \notin {currentMemberId, lastAssignedId}
           c1 == SelectSeq(ms, NotExcluded)
           c2 == IF Len(c1) # 0 THEN c1 ELSE ms
       IN <<SortBy("countId", c2)[1]>>

\* selectNewDutyMember(members, currentMemberId, lastAssignedId); <<>> is null
SelectNewDutyMember(ms, currentMemberId, lastAssignedId) ==
  IF Len(ms) = 0 THEN <<>>
  ELSE LET NotExcluded(m) == m.memberId \notin {currentMemberId, lastAssignedId}
           NotCurrent(m) == m.memberId # currentMemberId
           c1 == SelectSeq(ms, NotExcluded)
           c2 == IF Len(c1) # 0 THEN c1
                 ELSE IF Len(SelectSeq(ms, NotCurrent)) # 0 THEN SelectSeq(ms, NotCurrent)
                 ELSE ms
       IN IF Len(c2) = 0 THEN <<>> ELSE <<SortBy("countId", c2)[1]>>

\* A rotation that stays on the last member instead of wrapping to the
\* first: C29 must tell it from SelectNextMemberByIdRotation.
SelectNextNoWrap(ms, currentMemberId) ==
  IF Len(ms) <= 1 THEN (IF Len(ms) = 1 THEN <<ms[1]>> ELSE <<>>)
  ELSE LET sorted == SortBy("id", ms)
           currentIndex == IndexOf(MemberIds(sorted), currentMemberId) - 1
       IN IF currentIndex = 0 - 1 THEN <<sorted[1]>>
          ELSE IF currentIndex + 1 = Len(sorted) THEN <<sorted[Len(sorted)]>>
          ELSE <<sorted[currentIndex + 2]>>

\* A fallback to the first member of the listing as scanned, not as sorted:
\* C30 must tell it from SelectNextMemberByIdRotation.
SelectNextUnsortedFallback(ms, currentMemberId) ==
  IF Len(ms) <= 1 THEN (IF Len(ms) = 1 THEN <<ms[1]>> ELSE <<>>)
  ELSE LET sorted == SortBy("id", ms)
           currentIndex == IndexOf(MemberIds(sorted), currentMemberId) - 1
       IN IF currentIndex = 0 - 1 THEN <<ms[1]>>
          ELSE <<sorted[((currentIndex + 1) % Len(sorted)) + 1]>>

\* selectNextMemberByIdRotation(members, currentMemberId); <<>> is null
SelectNextMemberByIdRotation(ms, currentMemberId) ==
  IF Len(ms) <= 1 THEN (IF Len(ms) = 1 THEN <<ms[1]>> ELSE <<>>)
  ELSE LET sorted == SortBy("id", ms)
           currentIndex == IndexOf(MemberIds(sorted), currentMemberId) - 1
       IN IF currentIndex = 0 - 1 THEN <<sorted[1]>>
          ELSE <<sorted[((currentIndex + 1) % Len(sorted)) + 1]>>

\* A cursor that advances by two: C3 must tell it from NextIndex.
NextIndexSkipping(currentListIndex, rotationList) ==
  (currentListIndex + 2) % Len(rotationList)

\* handler (fixed-rotation), line 765
NextIndex(currentListIndex, rotationList) ==
  (currentListIndex + 1) % Len(rotationList)

\* handler (fixed-rotation), lines 752-756
InvalidRotationData(st) ==
  ~st.hasList \/ Len(st.rotationList) = 0 \/ st.currentListIndex < 0

\* A transaction without the check of the state it was handed: C17 must tell
\* it from InvalidDutyState.
NeverInvalidDutyState(st) == FALSE

\* updateDutyDataOnReselect, lines 531-538
InvalidDutyState(st) ==
  ~st.hasList \/ st.assignmentDate = 0 \/ Len(st.rotationList) = 0

\* An item that keeps the previous assignee next to the new cursor: C2 must
\* tell it from ReselectStateItem.
StaleAssigneeStateItem(st, newIndex, newMemberId) ==
  [exists |-> TRUE, hasList |-> TRUE, assignmentDate |-> st.assignmentDate,
   rotationList |-> st.rotationList, currentListIndex |-> newIndex,
   currentAssignedMemberId |-> st.currentAssignedMemberId,
   hasLast |-> FALSE, lastAssignedMemberId |-> NoId]

\* The item updateDutyDataOnReselect puts, lines 560-569.
ReselectStateItem(st, newIndex, newMemberId) ==
  [exists |-> TRUE, hasList |-> TRUE, assignmentDate |-> st.assignmentDate,
   rotationList |-> st.rotationList, currentListIndex |-> newIndex,
   currentAssignedMemberId |-> newMemberId,
   hasLast |-> FALSE, lastAssignedMemberId |-> NoId]

\* updateDynamoDBForReselection, lines 176-184: UpdateCommand
\* "SET lastAssignedMemberId = :new_id"; an item that is not there is created.
SetLastAssigned(ds, newMemberId) ==
  [ds EXCEPT !.exists = TRUE, !.hasLast = TRUE, !.lastAssignedMemberId = newMemberId]

\* --------------------------------------------------- reselection: trigger
\* The clock of Date.now(), in seconds.
NowOf(d) == d * 86400

TriggerKinds ==
  {"genuine", "forged", "replayed", "tampered", "nosig",
   "otherType", "otherAction", "unparsable", "noValue"}

\* The kinds whose request Slack did not sign as it arrives: signed with
\* another key, sent again after the window, body altered, no signature.
UnauthenticKinds == {"forged", "replayed", "tampered", "nosig"}

\* The url-encoded body Slack sends for a click on the button of message k
\* whose value is v.
PayloadOf(kind, k, v) ==
  [parsable |-> kind # "unparsable",
   type |-> IF kind = "otherType" THEN "view_submission" ELSE "block_actions",
   action_id |-> IF kind = "otherAction" THEN "other_action" ELSE "reselect_duty_action",
   value |-> IF kind = "noValue" THEN NoId ELSE v,
   msg |-> k]

OtherId(v) == CHOOSE w \in Ids : w # v

\* The request that reaches the Lambda.
EventOf(kind, k, v, now) ==
  LET body == [present |-> TRUE, payload |-> PayloadOf(kind, k, v)]
      ts == IF kind = "replayed" THEN Timestamp(now - FreshnessWindow - 1)
            ELSE Timestamp(now)
      signed == ComputeSignature(SigningSecret, ts, body)
  IN CASE kind = "forged" ->
            [sig |-> ComputeSignature([present |-> TRUE, key |-> "guess"], ts, body),
             ts |-> ts, body |-> body]
       [] kind = "tampered" ->
            [sig |-> signed, ts |-> ts,
             body |-> [present |-> TRUE, payload |-> PayloadOf(kind, k, OtherId(v))]]
       [] kind = "nosig" -> [sig |-> NoSignature, ts |-> ts, body |-> body]
       [] OTHER -> [sig |-> signed, ts |-> ts, body |-> body]

\* ----------------------------------------------------- reselection flow
\* A finished invocation keeps its response and what it called.
Done(r, code) ==
  [IdleReselect EXCEPT !.pc = "done", !.status = code, !.auth = r.auth,
                       !.calls = r.calls]

\* An entry that does not look at the action_id of the first action: C31
\* must tell it from RStart.
RStartAnyAction(s) ==
  /\ ~Running(rs[s])
  /\ \A t \in Slots : t < s => Running(rs[t])
  /\ InFlight < lim.inflight
  /\ g.triggers < lim.triggers
  /\ \E kind \in TriggerKinds, k \in 1..Len(msgs) :
       \E v \in msgs[k].shown :
         LET event == EventOf(kind, k, v, NowOf(today))
             payload == event.body.payload
             r0 == [IdleReselect EXCEPT !.kind = kind]
         IN /\ rs' = [rs EXCEPT ![s] =
                 IF ~VerifySlackRequest(event, SigningSecret, NowOf(today))
                 THEN Done([r0 EXCEPT !.auth = "rejected"], 403)
                 ELSE IF ~payload.parsable
                        \/ payload.type # "block_actions"
                        \/ payload.value = NoId \/ payload.msg = 0
                 THEN Done([r0 EXCEPT !.auth = "verified"], 200)
                 ELSE [r0 EXCEPT !.auth = "verified", !.pc = "read",
                                 !.btn = payload.value, !.msg = payload.msg]]
            /\ g' = [g EXCEPT !.triggers = @ + 1,
                              !.signed = kind \notin UnauthenticKinds,
                              !.kind = kind,
                              !.otherDay = @ \/ (kind = "genuine" /\ msgs[k].date # today)]
  /\ UNCHANGED <<probe, policy, lim, members, dutyState, msgs, today, df>>

\* handler, lines 683-734 (part_000) and 276-327 (part_001): the signature
\* gate, the payload checks and the extraction of the button value. The
\* click is on the button of a message of the channel, carrying a value that
\* message has displayed.
RStart(s) ==
  /\ ~Running(rs[s])
  /\ \A t \in Slots : t < s => Running(rs[t])
  /\ InFlight < lim.inflight
  /\ g.triggers < lim.triggers
  /\ \E kind \in TriggerKinds, k \in 1..Len(msgs) :
       \E v \in msgs[k].shown :
         LET event == EventOf(kind, k, v, NowOf(today))
             payload == event.body.payload
             r0 == [IdleReselect EXCEPT !.kind = kind]
         IN /\ rs' = [rs EXCEPT ![s] =
                 IF ~VerifySlackRequest(event, SigningSecret, NowOf(today))
                 THEN Done([r0 EXCEPT !.auth = "rejected"], 403)
                 ELSE IF ~payload.parsable
                        \/ payload.type # "block_actions"
                        \/ payload.action_id # "reselect_duty_action"
                        \/ payload.value = NoId \/ payload.msg = 0
                 THEN Done([r0 EXCEPT !.auth = "verified"], 200)
                 ELSE [r0 EXCEPT !.auth = "verified", !.pc = "read",
                                 !.btn = payload.value, !.msg = payload.msg]]
            /\ g' = [g EXCEPT !.triggers = @ + 1,
                              !.signed = kind \notin UnauthenticKinds,
                              !.kind = kind,
                              !.otherDay = @ \/ (kind = "genuine" /\ msgs[k].date # today)]
  /\ UNCHANGED <<probe, policy, lim, members, dutyState, msgs, today, df>>

\* A read step that lets a list of one member through: C16 must tell it from
\* AfterReadFixed.
AfterReadFixedNoFloor(r, st) ==
  IF InvalidRotationData(st)
  THEN [r EXCEPT !.pc = "refuse", !.st = st, !.calls = @ \cup {"getState"}]
  ELSE LET nextIndex == NextIndex(st.currentListIndex, st.rotationList)
           newMemberId == st.rotationList[nextIndex + 1]
       IN [r EXCEPT !.pc = IF InvalidDutyState(st) THEN "catch" ELSE "dec",
                    !.st = st, !.newIdx = nextIndex, !.newId = newMemberId,
                    !.calls = @ \cup {"getState", "select"}]

\* What the read step of each handler decides from what it read.
\* fixed-rotation: handler lines 742-770 and updateDutyDataOnReselect 531-538
AfterReadFixed(r, st) ==
  IF InvalidRotationData(st) \/ Len(st.rotationList) <= 1
  THEN [r EXCEPT !.pc = "refuse", !.st = st, !.calls = @ \cup {"getState"}]
  ELSE LET nextIndex == NextIndex(st.currentListIndex, st.rotationList)
           newMemberId == st.rotationList[nextIndex + 1]
       IN [r EXCEPT !.pc = IF InvalidDutyState(st) THEN "catch" ELSE "dec",
                    !.st = st, !.newIdx = nextIndex, !.newId = newMemberId,
                    !.calls = @ \cup {"getState", "select"}]

\* exclusion-rank: handler lines 354-385 (part_000)
AfterReadExclusion(r, st, ms) ==
  LET newMember == SelectNewDutyMember(ms, r.btn, st.lastAssignedMemberId)
  IN IF Len(ms) = 0 \/ newMember = <<>>
     THEN [r EXCEPT !.pc = "errupdate", !.st = st, !.ms = ms,
                    !.calls = @ \cup {"getState", "scan"}]
     ELSE [r EXCEPT !.pc = "dec", !.st = st, !.ms = ms,
                    !.newId = newMember[1].memberId,
                    !.calls = @ \cup {"getState", "scan", "select"}]

\* identifier-rotation: handler lines 333-362 (part_001)
AfterReadIdentifier(r, ms) ==
  LET newMember == SelectNextMemberByIdRotation(ms, r.btn)
  IN IF Len(ms) = 0 \/ newMember = <<>>
     THEN [r EXCEPT !.pc = "errupdate", !.ms = ms, !.calls = @ \cup {"scan"}]
     ELSE [r EXCEPT !.pc = "dec", !.ms = ms, !.newId = newMember[1].memberId,
                    !.calls = @ \cup {"scan", "select"}]

RRead(s) ==
  /\ rs[s].pc = "read"
  /\ \E ok \in BOOLEAN :
       /\ ok \/ CanFail
       /\ IF ~ok
          THEN /\ rs' = [rs EXCEPT ![s].pc = "catch",
                                   ![s].calls = @ \cup {IF policy = "identifier"
                                                        THEN "scan" ELSE "getState"}]
               /\ g' = Failed(g)
          ELSE /\ g' = g
               /\ rs' = [rs EXCEPT ![s] =
                    CASE policy = "fixed" -> AfterReadFixed(rs[s], GetDutyState(dutyState))
                      [] policy = "exclusion" ->
                           AfterReadExclusion(rs[s], GetDutyState(dutyState),
                                              GetAllMembers(members))
                      [] OTHER -> AfterReadIdentifier(rs[s], GetAllMembers(members))]
  /\ UNCHANGED <<probe, policy, lim, members, dutyState, msgs, today, df>>

\* The refusals: postEphemeral (fixed-rotation, lines 752-761) and the error
\* text put on the message with no blocks (lines 360-364 and 378-382).
RRefuse(s) ==
  /\ rs[s].pc \in {"refuse", "errupdate"}
  /\ \E ok \in BOOLEAN :
       /\ ok \/ CanFail
       /\ IF ok
          THEN /\ rs' = [rs EXCEPT ![s] =
                    Done([@ EXCEPT !.calls = @ \cup {IF rs[s].pc = "refuse"
                                                     THEN "postEphemeral" ELSE "update"}], 200)]
               /\ msgs' = IF rs[s].pc = "errupdate"
                          THEN [msgs EXCEPT ![rs[s].msg].value = NoId]
                          ELSE msgs
               /\ g' = g
          ELSE /\ rs' = [rs EXCEPT ![s].pc = "catch"]
               /\ msgs' = msgs
               /\ g' = Failed(g)
  /\ UNCHANGED <<probe, policy, lim, members, dutyState, today, df>>

\* A transaction that goes on to the increment without having applied the
\* decrement: C25 must tell it from RDec.
RDecSkipped(s) ==
  /\ rs[s].pc = "dec"
  /\ \E ok \in BOOLEAN :
       /\ ok \/ CanFail
       /\ IF ok
          THEN /\ rs' = [rs EXCEPT ![s].pc = "inc", ![s].calls = @ \cup {"decCount"}]
               /\ g' = g
          ELSE /\ rs' = [rs EXCEPT ![s].pc = "catch", ![s].calls = @ \cup {"decCount"}]
               /\ g' = Failed(g)
  /\ members' = members
  /\ UNCHANGED <<probe, policy, lim, dutyState, msgs, today, df>>

\* updateDutyDataOnReselect lines 541-548, updateDynamoDBForReselection lines
\* 151-161: the count of the member named by the button goes down by one.
RDec(s) ==
  /\ rs[s].pc = "dec"
  /\ \E ok \in BOOLEAN :
       /\ ok \/ CanFail
       /\ IF ok
          THEN /\ members' = AddDutyCount(members, rs[s].btn, 0 - 1)
               /\ rs' = [rs EXCEPT ![s].pc = "inc", ![s].calls = @ \cup {"decCount"}]
               /\ g' = g
          ELSE /\ members' = members
               /\ rs' = [rs EXCEPT ![s].pc = "catch", ![s].calls = @ \cup {"decCount"}]
               /\ g' = Failed(g)
  /\ UNCHANGED <<probe, policy, lim, dutyState, msgs, today, df>>

\* An increment whose failure is swallowed, the state write following all
\* the same: C19 must tell it from RInc.
RIncSwallowing(s) ==
  /\ rs[s].pc = "inc"
  /\ \E ok \in BOOLEAN :
       /\ ok \/ CanFail
       /\ IF ok
          THEN /\ members' = AddDutyCount(members, rs[s].newId, 1)
               /\ g' = g
          ELSE /\ members' = members
               /\ g' = Failed(g)
  /\ rs' = [rs EXCEPT ![s].pc = "write", ![s].calls = @ \cup {"incCount"}]
  /\ UNCHANGED <<probe, policy, lim, dutyState, msgs, today, df>>

\* updateDutyDataOnReselect lines 550-557, updateDynamoDBForReselection lines
\* 163-172: the count of the new member goes up by one.
RInc(s) ==
  /\ rs[s].pc = "inc"
  /\ \E ok \in BOOLEAN :
       /\ ok \/ CanFail
       /\ IF ok
          THEN /\ members' = AddDutyCount(members, rs[s].newId, 1)
               /\ rs' = [rs EXCEPT ![s].pc = "write", ![s].calls = @ \cup {"incCount"}]
               /\ g' = g
          ELSE /\ members' = members
               /\ rs' = [rs EXCEPT ![s].pc = "catch", ![s].calls = @ \cup {"incCount"}]
               /\ g' = Failed(g)
  /\ UNCHANGED <<probe, policy, lim, dutyState, msgs, today, df>>

\* The state write of the transaction: PutCommand of updateDutyDataOnReselect
\* (fixed-rotation), UpdateCommand of updateDynamoDBForReselection (the others).
WriteState(ds, r) ==
  IF policy = "fixed"
  THEN ReselectStateItem(r.st, r.newIdx, r.newId)
  ELSE SetLastAssigned(ds, r.newId)

RWrite(s) ==
  /\ rs[s].pc = "write"
  /\ \E ok \in BOOLEAN :
       /\ ok \/ CanFail
       /\ IF ok
          THEN /\ dutyState' = WriteState(dutyState, rs[s])
               /\ rs' = [rs EXCEPT ![s].pc = "reread",
                                   ![s].calls = @ \cup {IF policy = "fixed"
                                                        THEN "putState" ELSE "updateState"}]
               /\ g' = [g EXCEPT !.reselected = @ + 1]
          ELSE /\ dutyState' = dutyState
               /\ rs' = [rs EXCEPT ![s].pc = "catch",
                                   ![s].calls = @ \cup {IF policy = "fixed"
                                                        THEN "putState" ELSE "updateState"}]
               /\ g' = Failed(g)
  /\ UNCHANGED <<probe, policy, lim, members, msgs, today, df>>

\* A re-read that waits until the scan differs from the directory read
\* before the transaction: C37 must tell it from RReread.
RRereadPolling(s) ==
  /\ rs[s].pc = "reread"
  /\ GetAllMembers(members) # rs[s].ms
  /\ rs' = [rs EXCEPT ![s].pc = "update", ![s].ms = GetAllMembers(members),
                      ![s].calls = @ \cup {"scan"}]
  /\ g' = g
  /\ UNCHANGED <<probe, policy, lim, members, dutyState, msgs, today, df>>

\* handler lines 774-778 (fixed-rotation), 388 (part_000), 365 (part_001):
\* the directory is read again for the message.
RReread(s) ==
  /\ rs[s].pc = "reread"
  /\ \E ok \in BOOLEAN :
       /\ ok \/ CanFail
       /\ IF ok
          THEN /\ rs' = [rs EXCEPT ![s].pc = "update", ![s].ms = GetAllMembers(members),
                                   ![s].calls = @ \cup {"scan"}]
               /\ g' = g
          ELSE /\ rs' = [rs EXCEPT ![s].pc = "catch", ![s].calls = @ \cup {"scan"}]
               /\ g' = Failed(g)
  /\ UNCHANGED <<probe, policy, lim, members, dutyState, msgs, today, df>>

\* A chat.update that attaches the button with the value the click carried
\* (the member replaced): C24 must tell it from RUpdateMsg.
RUpdateMsgOldValue(s) ==
  /\ rs[s].pc = "update"
  /\ \E ok \in BOOLEAN :
       /\ ok \/ CanFail
       /\ IF ok
          THEN /\ msgs' = [msgs EXCEPT ![rs[s].msg].value = rs[s].btn,
                                       ![rs[s].msg].shown = @ \cup {rs[s].btn}]
               /\ g' = g
          ELSE /\ msgs' = msgs
               /\ g' = Failed(g)
  /\ rs' = [rs EXCEPT ![s] = Done([@ EXCEPT !.calls = @ \cup {"update"}], 200)]
  /\ UNCHANGED <<probe, policy, lim, members, dutyState, today, df>>

\* updateSlackMessage: chat.update puts the new member's id in the button of
\* the message; an error of chat.update is logged and swallowed.
RUpdateMsg(s) ==
  /\ rs[s].pc = "update"
  /\ \E ok \in BOOLEAN :
       /\ ok \/ CanFail
       /\ IF ok
          THEN /\ msgs' = [msgs EXCEPT ![rs[s].msg].value = rs[s].newId,
                                       ![rs[s].msg].shown = @ \cup {rs[s].newId}]
               /\ g' = g
          ELSE /\ msgs' = msgs
               /\ g' = Failed(g)
  /\ rs' = [rs EXCEPT ![s] = Done([@ EXCEPT !.calls = @ \cup {"update"}], 200)]
  /\ UNCHANGED <<probe, policy, lim, members, dutyState, today, df>>

\* A catch block that answers 500 as the daily handler does: C32 must tell it
\* from RCatch.
RCatchNonSuccess(s) ==
  /\ rs[s].pc = "catch"
  /\ \E ok \in BOOLEAN :
       /\ ok \/ CanFail
       /\ IF ok
          THEN /\ msgs' = [msgs EXCEPT ![rs[s].msg].value = NoId]
               /\ g' = g
          ELSE /\ msgs' = msgs
               /\ g' = Failed(g)
  /\ rs' = [rs EXCEPT ![s] = Done([@ EXCEPT !.calls = @ \cup {"update"}], 500)]
  /\ UNCHANGED <<probe, policy, lim, members, dutyState, today, df>>

\* handler catch block, lines 794-814: the error text replaces the message
\* (blocks: [] removes the button); an error of chat.update is swallowed.
RCatch(s) ==
  /\ rs[s].pc = "catch"
  /\ \E ok \in BOOLEAN :
       /\ ok \/ CanFail
       /\ IF ok
          THEN /\ msgs' = [msgs EXCEPT ![rs[s].msg].value = NoId]
               /\ g' = g
          ELSE /\ msgs' = msgs
               /\ g' = Failed(g)
  /\ rs' = [rs EXCEPT ![s] = Done([@ EXCEPT !.calls = @ \cup {"update"}], 200)]
  /\ UNCHANGED <<probe, policy, lim, members, dutyState, today, df>>

\* ------------------------------------------------------------ environment
\* Midnight in the configured time zone.
AdvanceDay ==
  /\ g.days < MaxDays
  /\ Quiet \/ lim.inflight > 1
  /\ today' = today + 1
  /\ g' = [g EXCEPT !.days = @ + 1]
  /\ UNCHANGED <<probe, policy, lim, members, dutyState, msgs, df, rs>>

\* ------------------------------------------------------------------- init
Row(p, c, ho, o) == [present |-> p, dutyCount |-> c, hasOrder |-> ho, displayOrder |-> o]
Absent == Row(FALSE, 0, FALSE, 0)

\* The members tables the runs start from: the scenario of the
\* specification (A 3, B 1, C 1), a tie broken by displayOrder, two members,
\* one member, and the empty table.
Directories ==
  { [A |-> Row(TRUE, 3, FALSE, 0), B |-> Row(TRUE, 1, FALSE, 0), C |-> Row(TRUE, 1, FALSE, 0)],
    [A |-> Row(TRUE, 0, TRUE, 2),  B |-> Row(TRUE, 0, FALSE, 0), C |-> Row(TRUE, 0, TRUE, 1)],
    [A |-> Row(TRUE, 0, FALSE, 0), B |-> Row(TRUE, 1, FALSE, 0), C |-> Absent],
    [A |-> Absent, B |-> Row(TRUE, 2, FALSE, 0), C |-> Absent],
    [A |-> Absent, B |-> Absent, C |-> Absent] }

\* Thursday of the first week; day 3 is a holiday, days 6 and 7 the weekend.
StartDays == {4}

InitHistory ==
  [dailyRuns |-> 0, triggers |-> 0, failures |-> 0, days |-> 0,
   base |-> [i \in Ids |-> 0], baseDay |-> 0, assigned |-> 0,
   failedToday |-> FALSE, otherDay |-> FALSE, reselected |-> 0,
   startIdx |-> 0, startId |-> NoId, signed |-> TRUE, kind |-> "none",
   errorPosted |-> FALSE]

InitSystem(dirs) ==
  /\ members \in dirs
  /\ dutyState = NoState
  /\ msgs = <<>>
  /\ df = IdleDaily
  /\ rs = [s \in Slots |-> IdleReselect]
  /\ g = InitHistory

\* One invocation at a time, under each of the three reselection Lambdas.
Init ==
  /\ probe = <<>>
  /\ policy \in Policies
  /\ lim = [inflight |-> 1, triggers |-> MaxTriggers, failures |-> MaxFailures]
  /\ InitSystem(Directories)
  /\ today \in StartDays

Next ==
  \/ DailyStart
  \/ DailyRead
  \/ DailyDiag
  \/ DailyInc
  \/ DailyPut
  \/ DailyReread
  \/ DailyPost
  \/ DailyCatch
  \/ \E s \in Slots : RStart(s)
  \/ \E s \in Slots : RRead(s)
  \/ \E s \in Slots : RRefuse(s)
  \/ \E s \in Slots : RDec(s)
  \/ \E s \in Slots : RInc(s)
  \/ \E s \in Slots : RWrite(s)
  \/ \E s \in Slots : RReread(s)
  \/ \E s \in Slots : RUpdateMsg(s)
  \/ \E s \in Slots : RCatch(s)
  \/ AdvanceDay

Spec == Init /\ [][Next]_vars

\* Interleaved invocations of the daily Lambda and the fixed-rotation
\* reselection Lambda, one invocation per slot at most.
ConcDirectories ==
  { [A |-> Row(TRUE, 3, FALSE, 0), B |-> Row(TRUE, 1, FALSE, 0), C |-> Row(TRUE, 1, FALSE, 0)],
    [A |-> Absent, B |-> Row(TRUE, 2, FALSE, 0), C |-> Absent],
    [A |-> Absent, B |-> Absent, C |-> Absent] }

InitConc ==
  /\ probe = <<>>
  /\ policy = "fixed"
  /\ lim = [inflight |-> NSlots, triggers |-> ConcTriggers, failures |-> ConcFailures]
  /\ InitSystem(ConcDirectories)
  /\ today \in StartDays

SpecConc == InitConc /\ [][Next]_vars

\* Every day of a week as the start, the holiday (day 3) and the weekend
\* (days 6 and 7) among them; one trigger at most.
CalendarDays == {2, 3, 5, 6, 7}

InitCal ==
  /\ probe = <<>>
  /\ policy = "fixed"
  /\ lim = [inflight |-> 1, triggers |-> 1, failures |-> MaxFailures]
  /\ InitSystem(Directories)
  /\ today \in CalendarDays

SpecCal == InitCal /\ [][Next]_vars

\* ------------------------------------- a trigger on any stored state item
\* The items the reselection Lambda can find under its STATE_ID (its table
\* and key are its own environment, part_000 432-433): none; a list with no
\* assignmentDate; a date with an empty list; a list of one; a list of two;
\* an item that holds lastAssignedMemberId only.
StoredStates(d) ==
  LET listForm(when, list) ==
        [NoState EXCEPT !.exists = TRUE, !.hasList = TRUE, !.assignmentDate = when,
                        !.rotationList = list, !.currentAssignedMemberId = "B"]
  IN {NoState, listForm(0, <<"B", "A">>), listForm(d, <<>>), listForm(d, <<"B">>),
      listForm(d, <<"B", "A">>),
      [NoState EXCEPT !.exists = TRUE, !.hasLast = TRUE, !.lastAssignedMemberId = "B"]}

\* The day's announcement is on the channel, its button carrying B; one
\* trigger and one more daily run follow.
InitStored ==
  /\ probe = <<>>
  /\ policy \in Policies
  /\ lim = [inflight |-> 1, triggers |-> 1, failures |-> MaxFailures]
  /\ members \in Directories
  /\ today \in StartDays
  /\ dutyState \in StoredStates(today)
  /\ msgs = <<[date |-> today, value |-> "B", shown |-> {"B"}]>>
  /\ df = IdleDaily
  /\ rs = [s \in Slots |-> IdleReselect]
  /\ g = [InitHistory EXCEPT !.dailyRuns = 1]

SpecStored == InitStored /\ [][Next]_vars

\* ------------------------------------------- the authenticator on its own
AuthBodies ==
  {[present |-> FALSE, payload |-> ""], [present |-> TRUE, payload |-> "p1"],
   [present |-> TRUE, payload |-> "p2"]}

OtherBody(b) == [present |-> TRUE, payload |-> IF b.payload = "p1" THEN "p2" ELSE "p1"]

\* The request-timestamp headers around the edge of the window, in seconds.
AuthTimestamps(now) ==
  {NoTimestamp, NaNTimestamp, Timestamp(now - FreshnessWindow - MaxSkew),
   Timestamp(now - FreshnessWindow - 1), Timestamp(now - FreshnessWindow),
   Timestamp(now - 1), Timestamp(now), Timestamp(now + MaxSkew)}

\* How the signature header relates to the request: Slack's signature of this
\* very timestamp and body; none; one made with another key; Slack's with a
\* character cut off; Slack's of another body; Slack's of another timestamp.
SignatureKinds == {"valid", "missing", "wrongKey", "short", "otherBody", "otherTs"}

SignatureOf(kind, ts, body, now) ==
  LET valid == ComputeSignature(SigningSecret, ts, body)
  IN CASE kind = "valid" -> valid
       [] kind = "missing" -> NoSignature
       [] kind = "wrongKey" -> ComputeSignature([present |-> TRUE, key |-> "guess"], ts, body)
       [] kind = "short" -> [valid EXCEPT !.len = SignatureLength - 1]
       [] kind = "otherBody" -> ComputeSignature(SigningSecret, ts, OtherBody(body))
       [] OTHER -> ComputeSignature(SigningSecret, Timestamp(now + 1), body)

InitAuth ==
  /\ InitSystem({[i \in Ids |-> Absent]})
  /\ policy = "fixed"
  /\ lim = [inflight |-> 0, triggers |-> 0, failures |-> 0]
  /\ today \in StartDays
  /\ \E kind \in SignatureKinds, body \in AuthBodies,
        secret \in {SigningSecret, NoSecret} :
       \E ts \in AuthTimestamps(NowOf(today)) :
         probe = [phase |-> "in", sigKind |-> kind, now |-> NowOf(today),
                  secret |-> secret,
                  event |-> [sig |-> SignatureOf(kind, ts, body, NowOf(today)),
                             ts |-> ts, body |-> body],
                  verdict |-> FALSE]

\* verifySlackRequest applied to the request.
AuthVerify ==
  /\ probe.phase = "in"
  /\ probe' = [probe EXCEPT !.phase = "out",
                            !.verdict = VerifySlackRequest(probe.event, probe.secret, probe.now)]
  /\ UNCHANGED <<policy, lim, members, dutyState, msgs, today, df, rs, g>>

SpecAuth == InitAuth /\ [][AuthVerify]_vars

\* -------------------------------------------- the selection on its own
CountValues == {0, 1, 3}

OrderValues == {[hasOrder |-> FALSE, displayOrder |-> 0]}
                 \cup {[hasOrder |-> TRUE, displayOrder |-> o] : o \in 1..MaxOrder}

\* The results getAllMembers can return: every order of every non-empty set
\* of ids, each with a count and with or without a displayOrder.
RECURSIVE MemberLists(_)
MemberLists(S) ==
  {<<>>} \cup
  UNION {{<<Item(i, c, o.hasOrder, o.displayOrder)>> \o rest :
            c \in CountValues, o \in OrderValues, rest \in MemberLists(S \ {i})} :
         i \in S}

\* The states getDutyState can return to the daily flow: none, or a list-form
\* item of today or of the day before naming any member as assignee.
PriorStates(d) ==
  {NoState} \cup
  {[NoState EXCEPT !.exists = TRUE, !.hasList = TRUE, !.assignmentDate = when,
                   !.rotationList = <<who>>, !.currentAssignedMemberId = who] :
     when \in {d - 1, d}, who \in Ids}

InitSelect ==
  /\ InitSystem({[i \in Ids |-> Absent]})
  /\ policy = "fixed"
  /\ lim = [inflight |-> 0, triggers |-> 0, failures |-> 0]
  /\ today \in StartDays
  /\ \E ms \in MemberLists(Ids) \ {<<>>}, st \in PriorStates(today) :
       probe = [phase |-> "in", ms |-> ms, st |-> st, out |-> <<>>]

\* selectFirstDutyMember applied to the directory and the prior state.
ApplySelectFirst ==
  /\ probe.phase = "in"
  /\ probe' = [probe EXCEPT !.phase = "out",
                            !.out = SelectFirstDutyMember(probe.ms, probe.st, today)]
  /\ UNCHANGED <<policy, lim, members, dutyState, msgs, today, df, rs, g>>

SpecSelect == InitSelect /\ [][ApplySelectFirst]_vars

\* ------------------------------- the exclusion-rank pick on its own
\* The value of the button (an id, in the directory or not) and the
\* lastAssignedMemberId of the state item (an id, or none).
TriggerIds == Ids
LastAssignedIds == Ids \cup {NoId}

InitSelectNew ==
  /\ InitSystem({[i \in Ids |-> Absent]})
  /\ policy = "exclusion"
  /\ lim = [inflight |-> 0, triggers |-> 0, failures |-> 0]
  /\ today \in StartDays
  /\ \E ms \in MemberLists(Ids), cur \in TriggerIds, last \in LastAssignedIds :
       probe = [phase |-> "in", ms |-> ms, cur |-> cur, last |-> last, out |-> <<>>]

\* selectNewDutyMember applied to the directory, the triggering member and
\* the recorded assignee.
ApplySelectNew ==
  /\ probe.phase = "in"
  /\ probe' = [probe EXCEPT !.phase = "out",
                            !.out = SelectNewDutyMember(probe.ms, probe.cur, probe.last)]
  /\ UNCHANGED <<policy, lim, members, dutyState, msgs, today, df, rs, g>>

SpecSelectNew == InitSelectNew /\ [][ApplySelectNew]_vars

\* ------------------------------ the identifier rotation on its own
\* The live directory stays as it is; each trigger carries the id the
\* previous pick put in the button, the first one any id (a member of the
\* directory or not). As many picks are made as the directory has members.
InitRotate ==
  /\ InitSystem({[i \in Ids |-> Absent]})
  /\ policy = "identifier"
  /\ lim = [inflight |-> 0, triggers |-> 0, failures |-> 0]
  /\ today \in StartDays
  /\ \E ms \in MemberLists(Ids) \ {<<>>}, start \in TriggerIds :
       probe = [phase |-> "in", ms |-> ms, start |-> start, cur |-> start, outs |-> <<>>]

\* selectNextMemberByIdRotation applied to the directory and the id of the
\* button.
ApplyRotation ==
  /\ probe.phase = "in"
  /\ LET next == SelectNextMemberByIdRotation(probe.ms, probe.cur)
         outs == IF next = <<>> THEN probe.outs
                 ELSE Append(probe.outs, next[1].memberId)
     IN probe' = [probe EXCEPT
                    !.outs = outs,
                    !.cur = IF next = <<>> THEN @ ELSE next[1].memberId,
                    !.phase = IF next = <<>> \/ Len(outs) = Len(probe.ms)
                              THEN "out" ELSE "in"]
  /\ UNCHANGED <<policy, lim, members, dutyState, msgs, today, df, rs, g>>

SpecRotate == InitRotate /\ [][ApplyRotation]_vars

\* ------------------------------------------- invocations run to their end
\* The steps of a started invocation: the Lambda runtime runs the handler on,
\* and each awaited call returns or fails.
DailySteps ==
  DailyRead \/ DailyDiag \/ DailyInc \/ DailyPut \/ DailyReread \/ DailyPost \/ DailyCatch

RSteps(s) ==
  RRead(s) \/ RRefuse(s) \/ RDec(s) \/ RInc(s) \/ RWrite(s) \/ RReread(s)
  \/ RUpdateMsg(s) \/ RCatch(s)

\* One invocation is in progress at a time (InitLive), so fairness of the
\* steps of whichever invocation is running is fairness of each.
HandlerSteps == DailySteps \/ \E s \in Slots : RSteps(s)

Fairness == WF_vars(HandlerSteps)

\* One trigger at most; when invocations start and when the day changes is
\* up to the environment.
\* Directories of three members, of one member and of none.
LiveDirectories ==
  { [A |-> Row(TRUE, 3, FALSE, 0), B |-> Row(TRUE, 1, FALSE, 0), C |-> Row(TRUE, 1, FALSE, 0)],
    [A |-> Absent, B |-> Row(TRUE, 2, FALSE, 0), C |-> Absent],
    [A |-> Absent, B |-> Absent, C |-> Absent] }

InitLive ==
  /\ probe = <<>>
  /\ policy \in Policies
  /\ lim = [inflight |-> 1, triggers |-> 1, failures |-> MaxFailures]
  /\ InitSystem(LiveDirectories)
  /\ today \in StartDays

SpecLive == InitLive /\ [][Next]_vars /\ Fairness

\* ----------------------------------------------- the configuration check
\* The variables of process.env the modules read; "" is a variable that is
\* not set (or set to the empty string: both are falsy).
EnvNames ==
  {"SLACK_BOT_TOKEN", "SLACK_CHANNEL_ID", "MEMBERS_TABLE_NAME",
   "STATE_TABLE_NAME", "STATE_ID", "TZ", "SLACK_SIGNING_SECRET"}

Environments == [EnvNames -> {"", "set"}]

\* The modules with a configuration check: the first notifier (src/index.js),
\* the daily notifier (DailyDutyNotifier/index.js) and the reselection
\* handlers (part_000, part_001).
Modules == {"notifier", "daily", "reselect"}

\* process.env.X || fallback
OrDefault(value, fallback) == IF value # "" THEN value ELSE fallback

\* src/index.js, lines 5-12: the check logs and the module goes on loading.
LoadNotifier(env) == TRUE

\* DailyDutyNotifier/index.js, lines 9-21: TRUE when no error is thrown.
LoadDaily(env) ==
  LET slackToken == env["SLACK_BOT_TOKEN"]
      slackChannelId == env["SLACK_CHANNEL_ID"]
      membersTableName == env["MEMBERS_TABLE_NAME"]
      stateTableName == env["STATE_TABLE_NAME"]
      stateId == env["STATE_ID"]
      timeZone == OrDefault(env["TZ"], "Asia/Tokyo")
  IN ~(slackToken = "" \/ slackChannelId = "" \/ membersTableName = ""
       \/ stateTableName = "" \/ stateId = "" \/ timeZone = "")

\* part_000, lines 9-20 and 429-441, part_001, lines 9-20.
LoadReselect(env) ==
  LET membersTableName == env["MEMBERS_TABLE_NAME"]
      stateTableName == env["STATE_TABLE_NAME"]
      stateId == env["STATE_ID"]
      slackToken == env["SLACK_BOT_TOKEN"]
      slackSigningSecret == env["SLACK_SIGNING_SECRET"]
  IN ~(membersTableName = "" \/ stateTableName = "" \/ stateId = ""
       \/ slackToken = "" \/ slackSigningSecret = "")

LoadModule(module, env) ==
  CASE module = "notifier" -> LoadNotifier(env)
    [] module = "daily" -> LoadDaily(env)
    [] OTHER -> LoadReselect(env)

\* The variables each module reads for its work.
Reads(module) ==
  CASE module = "notifier" -> {"SLACK_BOT_TOKEN", "SLACK_CHANNEL_ID"}
    [] module = "daily" -> EnvNames \ {"SLACK_SIGNING_SECRET"}
    [] OTHER -> EnvNames \ {"SLACK_CHANNEL_ID", "TZ"}

InitConfig ==
  /\ InitSystem({[i \in Ids |-> Absent]})
  /\ policy = "fixed"
  /\ lim = [inflight |-> 0, triggers |-> 0, failures |-> 0]
  /\ today \in StartDays
  /\ \E module \in Modules, env \in Environments :
       probe = [phase |-> "in", module |-> module, env |-> env, loaded |-> FALSE]

\* The Lambda runtime imports the module before it hands it an event.
ImportModule ==
  /\ probe.phase = "in"
  /\ probe' = [probe EXCEPT !.phase = "out",
                            !.loaded = LoadModule(probe.module, probe.env)]
  /\ UNCHANGED <<policy, lim, members, dutyState, msgs, today, df, rs, g>>

SpecConfig == InitConfig /\ [][ImportModule]_vars

\* ============================================================ properties
\* The count a member holds (an id without an item holds none).
CountOf(i) == IF members[i].present THEN members[i].dutyCount ELSE 0

\* The change of a member's count since the day's daily flow began.
Net(i) == CountOf(i) - g.base[i]

RECURSIVE SumNet(_)
SumNet(S) ==
  IF S = {} THEN 0
  ELSE LET i == CHOOSE x \in S : TRUE IN Net(i) + SumNet(S \ {i})

\* The member the state item records as the current assignee:
\* currentAssignedMemberId, superseded by lastAssignedMemberId once a
\* reselection of the exclusion-rank or identifier-rotation Lambda wrote it.
CurrentAssignee(ds) ==
  IF ds.hasLast THEN ds.lastAssignedMemberId ELSE ds.currentAssignedMemberId

\* The day's daily flow assigned once and nothing downstream failed since.
CleanDay == g.assigned = 1 /\ ~g.failedToday

\* C1: after the daily flow has assigned once and any number of reselections
\* have run to completion with no downstream failure, the counts of the
\* directory have changed by exactly 1 in total since before the daily flow.
C1_SumIsOne == (Quiet /\ CleanDay) => SumNet(Ids) = 1

\* C1 witness: two completed reselections after the day's one assignment.
C1_Witness == Quiet /\ CleanDay /\ g.reselected >= 2 /\ SumNet(Ids) = 1

\* C2: every stored list-form state has a non-empty rotation list, a cursor
\* that is an index of it, and the member at the cursor as current assignee.
C2_ListFormConsistent ==
  dutyState.hasList =>
    /\ Len(dutyState.rotationList) > 0
    /\ dutyState.currentListIndex \in 0..(Len(dutyState.rotationList) - 1)
    /\ dutyState.rotationList[dutyState.currentListIndex + 1]
         = dutyState.currentAssignedMemberId

\* C2 witness: a reselection has written the state while another invocation
\* is in progress.
C2_Witness ==
  /\ dutyState.hasList /\ g.reselected >= 1 /\ InFlight >= 2
  /\ \E s \in Slots : rs[s].pc = "reread"

\* C3: under fixed rotation, after n completed reselections since the daily
\* flow stored the list, the cursor is the stored start cursor plus n modulo
\* the length of the list, and the assignee is the member at the cursor: each
\* reselection advances by one, the last index wraps to 0, and as many
\* reselections as the list is long return cursor and assignee to the start,
\* whatever the counts are.
C3_CursorAdvances ==
  (policy = "fixed" /\ dutyState.hasList) =>
    /\ dutyState.currentListIndex
         = (g.startIdx + g.reselected) % Len(dutyState.rotationList)
    /\ (g.reselected % Len(dutyState.rotationList) = 0 =>
          /\ dutyState.currentListIndex = g.startIdx
          /\ dutyState.currentAssignedMemberId = g.startId)

\* C3 witness: a list of three members, three completed reselections, the
\* cursor back at the start (the third went from the last index to 0).
C3_Witness ==
  /\ policy = "fixed" /\ dutyState.hasList
  /\ Len(dutyState.rotationList) = 3 /\ g.reselected = 3
  /\ dutyState.currentListIndex = 0 /\ g.startIdx = 0

\* A step in which slot s applies its decrement.
DecStep(s) == rs[s].pc = "dec" /\ rs'[s].pc = "inc"

\* C4: the member a reselection decrements is the member the state item
\* records as current assignee when the decrement is applied.
C4_DecrementsCurrentAssignee ==
  [][\A s \in Slots :
        (DecStep(s) /\ g.failures = 0 /\ g.assigned = 1 /\ ~g.otherDay) =>
        \A i \in Ids : members'[i] # members[i] => i = CurrentAssignee(dutyState)]_vars

\* C5: with no invocation in progress, after the day's daily flow and
\* completed reselections triggered from the day's own message, the recorded
\* current assignee has net change +1 and every other member net change 0.
C5_OnlyAssigneeHoldsTheDay ==
  (/\ Quiet /\ CleanDay /\ ~g.otherDay
   /\ g.baseDay = today
   /\ dutyState.exists /\ dutyState.hasList /\ dutyState.assignmentDate = today)
  => \A i \in Ids : Net(i) = IF i = CurrentAssignee(dutyState) THEN 1 ELSE 0

\* C6: no member ever holds a negative count (stated for the runs in which
\* no downstream call has failed).
C6_CountsNonNegative == g.failures = 0 => \A i \in Ids : CountOf(i) >= 0

\* A step in which slot s takes a trigger whose request Slack did not sign.
UnsignedStart(s) == rs'[s] # rs[s] /\ ~Running(rs[s]) /\ ~g'.signed

\* C7: a request that fails authentication is answered 403, and nothing is
\* read, selected, written or updated for it.
C7_AuthGate ==
  [][\A s \in Slots : UnsignedStart(s) =>
        /\ rs'[s].pc = "done" /\ rs'[s].status = 403 /\ rs'[s].calls = {}
        /\ members' = members /\ dutyState' = dutyState /\ msgs' = msgs]_vars

\* C7 witness: a rejected request, answered 403, with no call made.
C7_Witness ==
  \E s \in Slots : rs[s].auth = "rejected" /\ rs[s].status = 403 /\ ~g.signed

\* The request is one Slack signed with the secret, body and timestamp as
\* they arrive, and the timestamp is not more than the window in the past.
SignedAndFresh ==
  /\ probe.sigKind = "valid"
  /\ probe.secret.present /\ probe.event.body.present /\ probe.event.ts.present
  /\ (probe.event.ts.numeric => probe.event.ts.val >= probe.now - 300)

\* C8: the authenticator rejects a request with a missing signature,
\* timestamp, body or secret, one whose timestamp is more than 300 seconds
\* old, and one whose signature is not the HMAC of its timestamp and body
\* (other length, other key, other body, other timestamp).
C8_RejectsUnlessSignedAndFresh ==
  (probe.phase = "out" /\ probe.verdict) => SignedAndFresh

\* C8 witness: Slack's own signature, replayed 301 seconds later, rejected.
C8_Witness ==
  /\ probe.phase = "out" /\ probe.sigKind = "valid" /\ probe.secret.present
  /\ probe.event.body.present
  /\ probe.event.ts = Timestamp(probe.now - 301)
  /\ ~probe.verdict

\* The days on which no duty is assigned: Saturday, Sunday, a holiday.
WeekendIsoDays == {6, 7}
NonBusinessDay(d) == FormatIsoDay(d) \in WeekendIsoDays \/ d \in HolidayDays

\* C9: on a Saturday, a Sunday or a holiday the daily flow returns at once:
\* no read, no write, no announcement.
C9_NoOpOnNonBusinessDay ==
  (df.pc # "idle" /\ NonBusinessDay(df.todayStr)) =>
    df.pc = "done" /\ df.status = 200 /\ df.calls = {}

\* The order of the specification: dutyCount, then displayOrder with a
\* missing one after every present one, then memberId.
OrderKey(m) == IF m.hasOrder THEN m.displayOrder ELSE MaxOrder + 1
RankedBefore(a, b) ==
  \/ a.dutyCount < b.dutyCount
  \/ a.dutyCount = b.dutyCount /\ OrderKey(a) < OrderKey(b)
  \/ /\ a.dutyCount = b.dutyCount /\ OrderKey(a) = OrderKey(b)
     /\ IdRank(a.memberId) < IdRank(b.memberId)

Elements(s) == {s[i] : i \in 1..Len(s)}

ScenarioList == <<Item("A", 3, FALSE, 0), Item("B", 1, FALSE, 0), Item("C", 1, FALSE, 0)>>

\* C10: SelectInitial returns the candidate that comes before every other
\* candidate in the order (dutyCount, displayOrder with missing last,
\* memberId); for A(3), B(1), C(1) and no prior state it returns B.
C10_FirstInRankOrder ==
  probe.phase = "out" =>
    LET cands == Elements(FirstCandidates(probe.ms, probe.st, today))
    IN /\ Len(probe.out) = 1
       /\ probe.out[1] \in cands
       /\ \A c \in cands \ {probe.out[1]} : RankedBefore(probe.out[1], c)
       /\ (probe.ms = ScenarioList /\ probe.st = NoState => probe.out[1].memberId = "B")

\* C10 witness: the scenario, answered B.
C10_Witness ==
  /\ probe.phase = "out" /\ probe.ms = ScenarioList /\ probe.st = NoState
  /\ probe.out[1].memberId = "B"

\* The prior state carries a date other than today's.
PriorOfOtherDay == probe.st.exists /\ probe.st.assignmentDate \notin {0, today}

\* The members SelectInitial chooses among: those other than the assignee a
\* prior state of another day records, or all when that leaves none.
Eligible ==
  LET all == Elements(probe.ms)
      rest == {m \in all : ~(PriorOfOtherDay
                             /\ m.memberId = probe.st.currentAssignedMemberId)}
  IN IF rest = {} THEN all ELSE rest

DistinctCounts ==
  \A i, j \in 1..Len(probe.ms) : i # j => probe.ms[i].dutyCount # probe.ms[j].dutyCount

RankFirstOfAll(m) ==
  m \in Elements(probe.ms) /\ \A c \in Elements(probe.ms) \ {m} : RankedBefore(m, c)

C13_AlwaysAMember ==
  probe.phase = "out" =>
    /\ Len(probe.out) = 1
    /\ probe.out[1] \in Elements(probe.ms)

\* C13 witness: the only member is yesterday's assignee, and is returned.
C13_Witness ==
  /\ probe.phase = "out" /\ Len(probe.ms) = 1 /\ PriorOfOtherDay
  /\ probe.ms[1].memberId = probe.st.currentAssignedMemberId
  /\ probe.out = <<probe.ms[1]>>

\* The orders in which the same items can be handed in.
OrdersOf(s) ==
  {[i \in 1..Len(s) |-> s[f[i]]] :
     f \in {h \in [1..Len(s) -> 1..Len(s)] : \A i, j \in 1..Len(s) : i # j => h[i] # h[j]}}

\* C14: SelectInitial returns the same member for every order of the same
\* member list with the same prior state.
C14_OrderIndependent ==
  probe.phase = "out" =>
    \A p \in OrdersOf(probe.ms) :
      SelectFirstDutyMember(p, probe.st, today) = probe.out

\* C14 witness: three members tied on dutyCount and on a missing
\* displayOrder, handed in with the first by memberId last.
C14_Witness ==
  /\ probe.phase = "out" /\ Len(probe.ms) = 3
  /\ \A i \in 1..3 : probe.ms[i].dutyCount = 1 /\ ~probe.ms[i].hasOrder
  /\ probe.ms[3].memberId = "A" /\ ~probe.st.exists
  /\ probe.out[1].memberId = "A"

\* The item of the snapshot the daily flow read that carries id.
SnapshotItem(id) == CHOOSE m \in Elements(df.ms) : m.memberId = id

\* C15: the rotation list the daily flow stores holds every member of the
\* snapshot it read exactly once, in the order (dutyCount, displayOrder,
\* memberId), and the stored cursor is the position of the selected member.
C15_ListIsSortedSnapshot ==
  [][(df.pc = "put" /\ df'.pc = "reread") =>
       LET list == dutyState'.rotationList
       IN /\ Len(list) = Len(df.ms)
          /\ {list[i] : i \in 1..Len(list)} = {m.memberId : m \in Elements(df.ms)}
          /\ \A i, j \in 1..Len(list) : i < j =>
               /\ list[i] # list[j]
               /\ RankedBefore(SnapshotItem(list[i]), SnapshotItem(list[j]))
          /\ dutyState'.currentListIndex \in 0..(Len(list) - 1)
          /\ list[dutyState'.currentListIndex + 1] = df.sel
          /\ dutyState'.currentAssignedMemberId = df.sel]_vars

\* C15 witness: three members tied on dutyCount, C with displayOrder 1, A
\* with 2, B with none, scanned as C, A, B; stored as C, A, B with cursor 0.
C15_Witness ==
  /\ df.pc = "reread" /\ dutyState.hasList
  /\ \A i \in Ids : members[i].present
  /\ members["A"].hasOrder /\ ~members["B"].hasOrder
  /\ dutyState.rotationList = <<"C", "A", "B">>
  /\ dutyState.currentListIndex = 0

\* A stored list of fewer than two members.
ShortList(st) == st.exists /\ st.hasList /\ Len(st.rotationList) < 2

\* C16: a fixed-rotation trigger that finds a stored list of fewer than two
\* members is refused: it proceeds to no write, and no step of it changes a
\* count, the state item, or the assignee an announcement shows.
C16_RefusesShortList ==
  [][\A s \in Slots :
       (policy = "fixed" /\ rs'[s] # rs[s]) =>
         /\ (rs[s].pc = "read" /\ ShortList(dutyState) /\ g'.failures = g.failures)
              => rs'[s].pc = "refuse"
         /\ (rs[s].pc \notin {"idle", "done", "read"} /\ ShortList(rs[s].st))
              => /\ members' = members
                 /\ dutyState' = dutyState
                 /\ \A k \in 1..Len(msgs) : msgs'[k].value \in {msgs[k].value, NoId}]_vars

\* C16 witness: a refused trigger on a stored list of one member.
C16_Witness ==
  /\ policy = "fixed" /\ ShortList(dutyState) /\ Len(dutyState.rotationList) = 1
  /\ \E s \in Slots : rs[s].pc = "done" /\ "postEphemeral" \in rs[s].calls

\* The calls of a reselection that write.
StateWrites == {"putState", "updateState"}
WriteCalls == {"decCount", "incCount"} \cup StateWrites

\* C19: a reselection issues its writes in the order decrement, increment,
\* state write; a write that fails ends the transaction: what was written
\* before stays, no later write is issued, nothing is written back.
C19_OrderedNoRollback ==
  [][\A s \in Slots :
       rs'[s] # rs[s] =>
         /\ "incCount" \in rs'[s].calls => "decCount" \in rs'[s].calls
         /\ (StateWrites \cap rs'[s].calls # {}) => "incCount" \in rs'[s].calls
         /\ (rs[s].pc \in {"dec", "inc", "write"} /\ g'.failures > g.failures)
              => rs'[s].pc = "catch" /\ members' = members /\ dutyState' = dutyState
         /\ rs[s].pc = "catch"
              => /\ members' = members /\ dutyState' = dutyState
                 /\ rs'[s].calls \cap WriteCalls = rs[s].calls \cap WriteCalls]_vars

\* C19 witness: the increment failed after the decrement; the invocation is
\* over, the state write was never issued and the decrement stays (the
\* counts of the day sum to 0).
C19_Witness ==
  /\ Quiet /\ g.assigned = 1 /\ g.failures = 1 /\ SumNet(Ids) = 0
  /\ \E s \in Slots :
       /\ rs[s].pc = "done" /\ "incCount" \in rs[s].calls
       /\ StateWrites \cap rs[s].calls = {}

\* A state with no assignmentDate or no non-empty rotationList.
NoFrozenDay(st) == st.assignmentDate = 0 \/ Len(st.rotationList) = 0

\* C17: a fixed-rotation reselection that reads a state with no
\* assignmentDate or no non-empty rotationList (the default state of a
\* missing item included) aborts: it goes on to no write, and no step of it
\* changes a count or the state item.
C17_InvalidStateAborts ==
  [][\A s \in Slots :
       (policy = "fixed" /\ rs'[s] # rs[s]) =>
         /\ (rs[s].pc = "read" /\ NoFrozenDay(GetDutyState(dutyState))
               /\ g'.failures = g.failures)
              => rs'[s].pc \in {"refuse", "catch"}
         /\ (rs[s].pc \notin {"idle", "done", "read"} /\ NoFrozenDay(rs[s].st))
              => /\ members' = members
                 /\ dutyState' = dutyState
                 /\ rs'[s].calls \cap WriteCalls = {}]_vars

\* C17 witness: a list of two with no assignmentDate passed the handler's
\* check and was stopped by the transaction's own; the invocation is over
\* and has issued no write.
C17_Witness ==
  /\ policy = "fixed" /\ g.failures = 0
  /\ dutyState.hasList /\ dutyState.assignmentDate = 0
  /\ Len(dutyState.rotationList) = 2
  /\ \E s \in Slots :
       /\ rs[s].pc = "done" /\ rs[s].auth = "verified"
       /\ "select" \in rs[s].calls /\ rs[s].calls \cap WriteCalls = {}

\* C18: under the exclusion-rank and identifier-rotation Lambdas, while the
\* state table holds no item, no step of a reselection changes a count or
\* creates the item.
C18_NoFabrication ==
  [][\A s \in Slots :
       (policy # "fixed" /\ rs'[s] # rs[s] /\ ~dutyState.exists) =>
         members' = members /\ dutyState' = dutyState]_vars

\* C20, in the case the claim names: when the daily flow has stored a new
\* date since a fixed-rotation reselection read the state, the state write
\* of that reselection leaves the stored assignmentDate and rotationList as
\* the daily flow wrote them.
C20_WritePreservesFrozenDay ==
  [][\A s \in Slots :
       (policy = "fixed" /\ rs[s].pc = "write" /\ rs'[s].pc = "reread"
        /\ dutyState.hasList
        /\ dutyState.assignmentDate # rs[s].st.assignmentDate) =>
         /\ dutyState'.assignmentDate = dutyState.assignmentDate
         /\ dutyState'.rotationList = dutyState.rotationList]_vars

\* A step in which slot s commits the state write of its transaction.
WriteStep(s) == rs[s].pc = "write" /\ rs'[s].pc = "reread"

\* C21: after the state write of a reselection, under each policy, the
\* assignee field of the state item that the next day's daily flow reads as
\* the previous assignee (currentAssignedMemberId) is the newly selected
\* member.
C21_StateNamesNewAssignee ==
  [][\A s \in Slots : WriteStep(s) =>
        /\ dutyState'.currentAssignedMemberId = rs[s].newId
        /\ YesterdayAssignedId(GetDutyState(dutyState'), today + 1) = rs[s].newId]_vars

\* The steps in which the daily flow applies its increment and its state put.
DailyIncStep == df.pc = "inc" /\ df'.pc \in {"put", "reread"}
DailyPutStep == df.pc = "put" /\ df'.pc = "reread"

\* C22: a daily assignment of member M on date D adds exactly 1 to M's count
\* and leaves every other item of the directory as it was; its state put
\* leaves an item made of D, the new rotation list, M's cursor and M as the
\* assignee only, with no field of the item it replaced.
C22_DailyAssignmentFrame ==
  [][/\ DailyIncStep =>
          /\ CountOf(df.sel)' = CountOf(df.sel) + 1
          /\ \A i \in Ids \ {df.sel} : members'[i] = members[i]
          /\ dutyState' = dutyState
     /\ DailyPutStep =>
          /\ members' = members
          /\ dutyState'.assignmentDate = df.todayStr
          /\ dutyState'.rotationList = df.list
          /\ dutyState'.rotationList[dutyState'.currentListIndex + 1] = df.sel
          /\ dutyState'.currentAssignedMemberId = df.sel
          /\ ~dutyState'.hasLast /\ dutyState'.lastAssignedMemberId = NoId]_vars

\* C22 witness: under the exclusion-rank Lambda a reselection has updated an
\* announcement (so the item held lastAssignedMemberId), and a later daily
\* flow has put its item, which holds none.
C22_Witness ==
  /\ policy = "exclusion" /\ df.pc = "reread" /\ "putState" \in df.calls
  /\ \E k \in 1..Len(msgs) : Cardinality(msgs[k].shown) >= 2
  /\ dutyState.hasList /\ ~dutyState.hasLast
  /\ dutyState.currentAssignedMemberId = df.sel

\* C23: the daily flow increments dutyCount at most once per date, however
\* many times the daily trigger fires on that date.
C23_OneAssignmentPerDate == g.baseDay = today => g.assigned <= 1

\* The steps in which the announcement is posted and in which chat.update
\* puts the outcome of a reselection on it.
PostStep == df.pc = "post" /\ df'.pc = "done" /\ g' = g
UpdateStep(s) == rs[s].pc = "update" /\ rs'[s].pc = "done" /\ g' = g

CountersInconsistent ==
  \E i \in Ids : Net(i) < 0 \/ (Net(i) > 0 /\ i # CurrentAssignee(dutyState))

\* Slot s has committed its transaction and not answered yet.
Committed(s) == rs[s].pc \in {"reread", "update"}

\* Two invocations for the day's message that both read the state item of the
\* day's assignment, naming its assignee, before either wrote.
RacedOnSameRead ==
  /\ NSlots >= 2 /\ Committed(1) /\ Committed(2)
  /\ \A t \in Slots \ {1, 2} : ~Running(rs[t])
  /\ g.reselected = 2
  /\ rs[1].st = rs[2].st /\ rs[1].btn = rs[2].btn
  /\ rs[1].st.assignmentDate = g.baseDay
  /\ rs[1].st.currentAssignedMemberId = rs[1].btn
  /\ rs[1].st.currentListIndex = g.startIdx

\* C25: two reselections for the same day whose reads and writes interleave
\* can end with the counters inconsistent with the state item: when both read
\* the day's state before either wrote, the member they both replaced ends
\* with net count -1 and the member they both selected with net count +2.
C25_RaceLeavesCountersInconsistent ==
  (CleanDay /\ RacedOnSameRead) =>
    /\ Net(rs[1].btn) = 0 - 1
    /\ Net(rs[1].newId) = 2
    /\ CountersInconsistent

\* C25 witness: the day's one assignment, no failure, two reselections of the
\* day's own message that both read the state before either wrote and have
\* both committed, only their message updates left; the member they replaced
\* holds a negative net count.
C25_Witness ==
  /\ CleanDay /\ ~g.otherDay /\ RacedOnSameRead
  /\ rs[1].pc = "update" /\ rs[2].pc = "update"
  /\ \E i \in Ids : Net(i) < 0
  /\ CountersInconsistent

\* The ids of the directory handed to the pick, and the two excluded ids.
DirectoryIds == {probe.ms[i].memberId : i \in 1..Len(probe.ms)}
ExcludedIds == {probe.cur, probe.last}

\* C26: the exclusion-rank pick returns neither the triggering member nor the
\* recorded assignee unless the two cover the whole directory; when they do,
\* it returns the recorded assignee, not the triggering member, whenever the
\* directory holds a member other than the triggering one.
C26_ExclusionRespected ==
  (probe.phase = "out" /\ Len(probe.ms) > 0) =>
    /\ probe.out # <<>>
    /\ probe.out[1].memberId \in DirectoryIds
    /\ (DirectoryIds \ ExcludedIds # {} => probe.out[1].memberId \notin ExcludedIds)
    /\ (DirectoryIds \ {probe.cur} # {} => probe.out[1].memberId # probe.cur)
    /\ ((DirectoryIds \ ExcludedIds = {} /\ DirectoryIds \ {probe.cur} # {})
          => probe.out[1].memberId = probe.last)

\* C26 witness: a directory of exactly the triggering member and the recorded
\* assignee, the triggering member holding the lower count; the recorded
\* assignee is returned.
C26_Witness ==
  /\ probe.phase = "out" /\ Len(probe.ms) = 2
  /\ DirectoryIds = ExcludedIds /\ probe.cur # probe.last
  /\ \E i \in 1..2 : /\ probe.ms[i].memberId = probe.cur
                     /\ probe.ms[i].dutyCount < probe.out[1].dutyCount
  /\ probe.out[1].memberId = probe.last

\* The candidates that remain after the exclusion: the members outside the
\* excluded pair, or else the members other than the triggering one, or else
\* the whole directory.
Remaining ==
  LET all == {probe.ms[i] : i \in 1..Len(probe.ms)}
      outside == {m \in all : m.memberId \notin ExcludedIds}
      others == {m \in all : m.memberId # probe.cur}
  IN IF outside # {} THEN outside ELSE IF others # {} THEN others ELSE all

\* C27: the exclusion-rank pick returns the member the three-key ranking of
\* the daily flow (dutyCount, displayOrder with missing last, memberId) puts
\* first among the remaining candidates.
C27_SameRankingAsInitial ==
  (probe.phase = "out" /\ Len(probe.ms) > 0) =>
    /\ probe.out # <<>>
    /\ probe.out[1] \in Remaining
    /\ \A m \in Remaining \ {probe.out[1]} : CompareRank(probe.out[1], m) < 0

\* C28: the member the exclusion-rank pick returns holds the lowest dutyCount
\* of the remaining candidates, in whatever order the directory is listed.
C28_LowestCountOfRemaining ==
  (probe.phase = "out" /\ Len(probe.ms) > 0) =>
    /\ probe.out # <<>>
    /\ probe.out[1] \in Remaining
    /\ \A m \in Remaining : probe.out[1].dutyCount <= m.dutyCount

\* C28 witness: three members listed with the lowest count last, two of them
\* remaining after the exclusion, the one returned holding strictly less than
\* the other and not listed before it.
C28_Witness ==
  /\ probe.phase = "out" /\ Len(probe.ms) = 3
  /\ Cardinality(Remaining) = 2
  /\ probe.out[1] = probe.ms[3]
  /\ \E m \in Remaining : probe.out[1].dutyCount < m.dutyCount

\* The smallest memberId of the directory handed to the pick.
SmallestId == CHOOSE i \in DirectoryIds : \A j \in DirectoryIds : IdRank(i) <= IdRank(j)

\* C29: with the directory unchanged and n >= 1 members, n identifier
\* rotations in succession from any member return n pairwise distinct
\* members, the n-th one being the member started from.
C29_RotationVisitsAll ==
  (probe.phase = "out" /\ probe.start \in DirectoryIds) =>
    /\ Len(probe.outs) = Len(probe.ms)
    /\ \A i, j \in 1..Len(probe.outs) : i # j => probe.outs[i] # probe.outs[j]
    /\ {probe.outs[i] : i \in 1..Len(probe.outs)} = DirectoryIds
    /\ probe.outs[Len(probe.outs)] = probe.start

\* C29 witness: three members listed out of id order, three rotations from
\* the member with the largest id, the first of which wrapped to the smallest.
C29_Witness ==
  /\ probe.phase = "out" /\ Len(probe.ms) = 3 /\ Len(probe.outs) = 3
  /\ MemberIds(probe.ms) = <<"C", "A", "B">>
  /\ probe.start = "C" /\ probe.outs = <<"A", "B", "C">>

\* C30: when the triggering member is not in the live directory, the
\* identifier rotation returns the member with the smallest memberId, for
\* every size of directory from 1 up.
C30_AbsentTriggerGetsSmallest ==
  (Len(probe.outs) >= 1 /\ probe.start \notin DirectoryIds) =>
    probe.outs[1] = SmallestId

\* C30 witness: an absent triggering member and a directory of two listed
\* largest id first; the member with the smaller id is returned.
C30_Witness ==
  /\ Len(probe.outs) >= 1 /\ probe.start \notin DirectoryIds
  /\ Len(probe.ms) = 2 /\ probe.ms[1].memberId # SmallestId
  /\ probe.outs[1] = SmallestId

\* A step in which slot s takes a trigger of one of the given kinds.
StartOf(s, kinds) ==
  /\ g'.triggers = g.triggers + 1 /\ g'.kind \in kinds
  /\ ~Running(rs[s]) /\ \A t \in Slots : t < s => Running(rs[t])

\* The authentic requests that are not a click on the reselect button:
\* another payload type, another action_id.
OtherInteractions == {"otherType", "otherAction"}

\* C31: an authenticated request whose payload type is not block_actions or
\* whose first action_id is not reselect_duty_action is answered 200 and
\* leaves every count, the state item and the announcements as they were.
C31_OtherInteractionsAreNoOps ==
  [][\A s \in Slots : StartOf(s, OtherInteractions) =>
        /\ rs'[s].pc = "done" /\ rs'[s].status = 200
        /\ rs'[s].auth = "verified" /\ rs'[s].calls = {}
        /\ members' = members /\ dutyState' = dutyState /\ msgs' = msgs]_vars

\* C31 witness: the day's announcement is posted and a request with another
\* action_id has been answered 200.
C31_Witness ==
  /\ g.kind = "otherAction" /\ Len(msgs) >= 1 /\ dutyState.hasList
  /\ rs[1].pc = "done" /\ rs[1].status = 200 /\ rs[1].auth = "verified"

\* C32: every reselection request that passed authentication is answered
\* 200, whatever failed afterwards; the only other response of the
\* reselection handler is the 403 of a request that failed authentication.
C32_AlwaysAcknowledged ==
  \A s \in Slots : rs[s].pc = "done" =>
    /\ rs[s].auth \in {"verified", "rejected"}
    /\ rs[s].auth = "verified" => rs[s].status = 200
    /\ rs[s].auth = "rejected" => rs[s].status = 403 /\ rs[s].calls = {}

\* C32 witness: the increment of a transaction failed after its decrement
\* was applied, the catch block ran, and the request was answered 200.
C32_Witness ==
  /\ rs[1].pc = "done" /\ rs[1].auth = "verified" /\ rs[1].status = 200
  /\ g.failures >= 1
  /\ {"decCount", "incCount", "update"} \subseteq rs[1].calls
  /\ rs[1].calls \cap {"putState", "updateState"} = {}

\* The calls of the daily flow that write: the increment and the state put.
DailyWrites == {"addCount", "putState"}

\* C33: on a business day with an empty directory the daily flow goes to the
\* diagnostic announcement, answers with a non-success status, and neither
\* updates a count nor writes the state item.
C33_EmptyDirectoryNoWrites ==
  [][/\ (df.pc = "read" /\ df'.pc # "catch" /\ Len(GetAllMembers(members)) = 0)
          => df'.pc = "diag"
     /\ df.pc = "diag" =>
          /\ members' = members /\ dutyState' = dutyState
          /\ df'.calls \cap DailyWrites = {}
          /\ "postDiag" \in df'.calls
          /\ df'.pc \in {"done", "catch"}
          /\ df'.pc = "done" => df'.status = 400
     /\ (df.pc = "catch" /\ "postDiag" \in df.calls) =>
          /\ members' = members /\ dutyState' = dutyState
          /\ df'.pc = "done" /\ df'.status = 500
          /\ df'.calls \cap DailyWrites = {}]_vars

\* C33 witness: the directory is empty, the diagnostic message was posted and
\* the daily flow answered 400; no state item was written.
C33_Witness ==
  /\ df.pc = "done" /\ df.status = 400 /\ "postDiag" \in df.calls
  /\ IsWeekdayInZone(df.todayStr)
  /\ \A i \in Ids : ~members[i].present
  /\ ~dutyState.exists

\* A step in which a call of the daily flow fails, and the step of its
\* catch block.
DailyFailStep == Running(df) /\ df.pc # "catch" /\ df'.pc = "catch"
DailyCatchStep == df.pc = "catch" /\ df'.pc = "done"

\* C34: when a call of the daily flow fails, nothing written before is taken
\* back, the failure announcement is attempted and the response is 500; the
\* response and the tables are the same whether the failure announcement is
\* delivered or not.
C34_DailyFailureSurfaces ==
  [][/\ (Running(df) /\ df' # df /\ g'.failures > g.failures) => DailyFailStep
     /\ DailyFailStep =>
          /\ members' = members /\ dutyState' = dutyState /\ msgs' = msgs
     /\ df.pc = "catch" =>
          /\ df' = DailyDone([df EXCEPT !.calls = @ \cup {"postError"}], 500)
          /\ df'.status = 500 /\ "postError" \in df'.calls
          /\ members' = members /\ dutyState' = dutyState /\ msgs' = msgs]_vars

\* C34 witness: the state put failed after the increment, the failure
\* announcement failed too, the response is 500 and the increment is still
\* there with no state item written.
C34_Witness ==
  /\ df.pc = "done" /\ df.status = 500 /\ ~g.errorPosted
  /\ {"addCount", "putState", "postError"} \subseteq df.calls
  /\ g.assigned = 1 /\ g.dailyRuns = 1 /\ SumNet(Ids) = 1
  /\ ~dutyState.exists

\* C35: in every reselection transaction the member decremented and the
\* member incremented are two different members, for every accepted trigger
\* under each policy.
C35_DistinctTargets ==
  \A s \in Slots : rs[s].pc \in {"dec", "inc"} => rs[s].btn # rs[s].newId

\* The ids that hold an item in the members table.
Existing(tbl) == {i \in Ids : tbl[i].present}

\* C36: no step of the daily flow or of a reselection changes which ids
\* hold an item in the members table, also when the member the button names
\* or a member of the stored rotation list has no item any more.
C36_MembershipUnchanged == [][Existing(members') = Existing(members)]_vars

\* C37: every started invocation of the daily flow and of a reselection
\* returns a response, given that each of its external calls returns or
\* fails.
C37_InvocationsReturn == ~Quiet ~> Quiet

\* C37 witness: a reselection whose transaction and message update ran, with
\* a call that failed along the way, has returned, and so has the daily flow.
C37_Witness ==
  /\ df.pc = "done" /\ df.status = 200
  /\ rs[1].pc = "done" /\ rs[1].status = 200
  /\ g.failures >= 1 /\ "update" \in rs[1].calls /\ "decCount" \in rs[1].calls

\* C38: a module whose environment lacks one of the configuration values it
\* reads (signing secret, table identifiers, channel id, timezone) does not
\* load, so its handler processes no event.
ConfigurationSurface ==
  {"SLACK_SIGNING_SECRET", "MEMBERS_TABLE_NAME", "STATE_TABLE_NAME", "STATE_ID",
   "SLACK_CHANNEL_ID", "TZ"}

C38_MissingConfigurationIsFatal ==
  (probe # <<>> /\ probe.phase = "out"
   /\ \E n \in Reads(probe.module) \cap ConfigurationSurface : probe.env[n] = "")
    => ~probe.loaded

\* C39: a daily run that reads two members or more and a stored list-form
\* state dated another day never selects the member that state records as
\* current assignee; after a day of fixed-rotation reselections the first
\* assignee of the next business day is not the one the day ended with.
C39_NotYesterdaysFinalAssignee ==
  [][(df.pc = "read" /\ df'.pc = "inc" /\ Len(df'.ms) >= 2
      /\ dutyState.exists /\ dutyState.hasList /\ dutyState.assignmentDate # today)
     => df'.sel # dutyState.currentAssignedMemberId]_vars

\* C39 witness: the day before ended on a member the fixed-rotation
\* reselection moved the cursor to, and today's run has selected another
\* member of a directory of three.
C39_Witness ==
  /\ policy = "fixed" /\ df.pc = "inc" /\ Len(df.ms) = 3
  /\ dutyState.exists /\ dutyState.hasList /\ dutyState.assignmentDate = today - 1
  /\ g.reselected >= 1 /\ rs[1].pc = "done" /\ "putState" \in rs[1].calls
  /\ rs[1].status = 200 /\ dutyState.currentAssignedMemberId # g.startId
  /\ df.sel # dutyState.currentAssignedMemberId

\* The request carries a numeric timestamp, a body and a signature header,
\* and the secret is configured.
CompleteRequest ==
  /\ probe.phase = "out" /\ probe.secret.present /\ probe.event.body.present
  /\ probe.event.ts.present /\ probe.event.ts.numeric /\ probe.event.sig.present

====
